---- MODULE Spec2Model ----
(***************************************************************************)
(* CDC WONDER extraction pipeline: the retrying HTTP client                *)
(* (CDCWonderExtractor.submit_request), the descriptor parser              *)
(* (parse_xml_request) and the batch orchestrator (extract_dataset,        *)
(* extract_all_datasets) of                                                *)
(* Data_Extraction_and_Transformation/Data_Sources/CDC_WONDER/             *)
(* cdc_wonder_extractor.py.                                                *)
(***************************************************************************)
EXTENDS Integers, Sequences, FiniteSets, TLC

(***************************************************************************)
(* Bounds of the model.                                                    *)
(***************************************************************************)
\* largest max_retries a direct caller of submit_request passes
MaxRetriesBound == 4
\* largest number of <value> elements of one <parameter>
MaxValues == 2
\* longest text of a <value> element, in characters
MaxTextLen == 2
\* largest number of entries of the params mapping a caller passes to
\* submit_request
MaxRequestKeys == 2
\* largest max_retries of the calls whose params mapping is drawn
MaxRequestRetries == 2
\* largest number of full batches of the CSV data given to
\* upload_to_google_sheets
MaxBatches == 2
\* largest number of columns of a CSV row
MaxCols == 27
\* largest length of the years argument of the census client
MaxYears == 3

(***************************************************************************)
(* Program constants.                                                      *)
(***************************************************************************)
\* submit_request(self, params, max_retries: int = 3)
DefaultMaxRetries == 3
\* dataset_mappings, in insertion order (the order the dict is iterated in)
dataset_mappings ==
    << [xml |-> "Provisional_Mortality_Statistics_2018_through_Last_Week_1760806798363-req.xml",
        out |-> "d176_provisional_2018_current.csv"],
       [xml |-> "Official_1999-2020_Synthetic_Opioid_Deaths-req.xml",
        out |-> "d77_official_1999_2020.csv"],
       [xml |-> "Official_2018-2023_Synthetic_Opioid_Deaths-req.xml",
        out |-> "d157_official_2018_2023.csv"] >>
NumDatasets == Len(dataset_mappings)
\* time.sleep(2) after each extract_dataset, in seconds
PolitenessDelay == 2

Datasets == 1..NumDatasets

(***************************************************************************)
(* The environment: what the remote endpoint and the file system can do.   *)
(***************************************************************************)
\* session.post raised a requests.exceptions.RequestException: no response
TransportFailure == 0
\* status codes the endpoint answers with (0: the POST itself raised)
Statuses == {TransportFailure, 200, 204, 400, 404, 502, 504}
\* outcomes the client is meant to retry
TransientStatuses == {TransportFailure, 502, 504}
\* response bodies
Bodies == {"b1", "b2 "}
Responses == [status : Statuses, text : Bodies]
\* random.uniform(0, 1), in tenths of a second
Jitters == {0, 10}
\* how an open(path, 'w') / f.write(data) pair can end
WriteOutcomes == {"ok", "open_fails", "write_fails"}

NoFile == "<absent>"
NoneValue == "<None>"
NoResponse == [status |-> TransportFailure, text |-> "<unbound>"]

DebugFile == "debug_response.html"
TimeoutFile == "timeout_response.html"
DiagnosticFiles == {DebugFile, TimeoutFile}
\* every dataset is written to the first output file
OutputFileShared(k) == dataset_mappings[1].out

\* os.path.join(output_dir, output_file)
OutputFile(k) == dataset_mappings[k].out

\* the file system with none of the program's files present
InitFs ==
    [f \in DiagnosticFiles \cup {OutputFile(k) : k \in Datasets} |-> NoFile]

VARIABLES
    \* ---- submit_request: one call ----
    max_retries,   \* the max_retries argument
    attempt,       \* loop variable of `for attempt in range(max_retries)`:
                   \* the index of the next iteration
    posts,         \* number of session.post calls made by this call
    sleeps,        \* number of backoff time.sleep(wait_time) calls of this call
    wait_time,     \* the last wait_time slept, in tenths of a second
    bad_requests,  \* number of this call's POSTs that got HTTP 400
    last_status,   \* outcome of this call's latest POST
    transients,    \* number of this call's POSTs that got 502, 504 or a
                   \* transport failure
    response,      \* the local `response`: the last response received
    sub,           \* "idle", "running", "returned", "raised"
    ret,           \* value returned by the call (NoneValue: returned None)
    err,           \* exception the call raised
    diag,          \* diagnostic files this call wrote (opened for writing)
    request_params,\* the local request_params: the form fields of each POST
    posted,        \* the `data` arguments of this call's POSTs so far
    \* ---- the file system ----
    fs,            \* file name -> content
    \* ---- extract_all_datasets / main ----
    pc,            \* position of the orchestrator
    i,             \* index of the dataset_mappings entry being processed
    exists,        \* os.path.exists(xml_path) per dataset
    results,       \* the results dict
    parse_calls,   \* datasets parse_xml_request was invoked for
    submit_calls,  \* datasets submit_request was invoked for
    delays,        \* number of time.sleep(2) calls
    exit_code,     \* return value of main
    delay_since_post, \* seconds of time.sleep(2) since the latest POST
    \* ---- parse_xml_request: one call ----
    params,        \* the params dict built so far
    param,         \* loop variable: the <parameter> element just processed
    parse_pc,      \* "idle", "loop", "returned"
    \* ---- GoogleSheetsLoader.upload_to_google_sheets: one call ----
    gc,            \* self.gc is set: the loader is authenticated
    csv,           \* the rows csv.reader yields for csv_data
    sheet,         \* the named worksheet: "absent", "old" (it holds the
                   \* contents of an earlier upload), "new" (created by
                   \* this call) or "blank" (its old contents were cleared)
    up_pc,         \* position of the call
    up_i,          \* loop variable of `for i in range(0, len(rows), ...)`
    updates,       \* the worksheet.update calls that succeeded, in order
    up_result,     \* value returned by the call
    \* ---- export_multiple_datasets ----
    ex_pc,         \* "idle", "loop", "returned"
    ex_i,          \* index of the export being processed
    csv_exists,    \* os.path.exists(export['csv_file']) per export
    success_count, \* the local success_count
    load_log,      \* what was done for each export so far, in order
    upload_calls,  \* exports upload_to_google_sheets was called for
    ex_result,     \* value returned by export_multiple_datasets
    \* ---- CensusExtractor.get_state_*: one call ----
    c_fn,          \* "population" or "economic"
    years,         \* the years argument
    c_i,           \* index in years of the next year
    all_data,      \* the list all_data: one table per year that succeeded
    requested,     \* the GET requests made so far and how each ended
    c_pc,          \* "idle", "loop", "returned", "raised"
    c_out          \* the table the call returned

submitVars == <<max_retries, attempt, posts, sleeps, wait_time, bad_requests,
                last_status, transients, response, sub, ret, err, diag,
                request_params, posted>>
orchVars == <<pc, i, exists, results, parse_calls, submit_calls, delays,
              exit_code>>
batchVars == <<orchVars, delay_since_post>>
parseVars == <<params, param, parse_pc>>
sheetVars == <<gc, csv, sheet, up_pc, up_i, updates, up_result>>
exportVars == <<ex_pc, ex_i, csv_exists, success_count, load_log,
                upload_calls, ex_result>>
censusVars == <<c_fn, years, c_i, all_data, requested, c_pc, c_out>>
extVars == <<sheetVars, exportVars, censusVars>>
vars == <<submitVars, fs, batchVars, parseVars, extVars>>

(***************************************************************************)
(* Helpers.                                                                *)
(***************************************************************************)
RECURSIVE Pow2(_)
Pow2(n) == IF n = 0 THEN 1 ELSE 2 * Pow2(n - 1)

\* open(path, 'a'): the data is appended to what the file holds
WriteFileAppends(old, data, outcome) ==
    CASE outcome = "ok" ->
            IF old \in {NoFile, ""} THEN data ELSE "<old content + data>"
      [] outcome = "open_fails" -> old
      [] outcome = "write_fails" -> old

\* with open(path, 'w', encoding='utf-8') as f: f.write(data)
\* open(..., 'w') truncates; a failing write leaves the truncated file.
WriteFile(old, data, outcome) ==
    CASE outcome = "ok" -> data
      [] outcome = "open_fails" -> old
      [] outcome = "write_fails" -> ""

\* requests.Response.raise_for_status: raises HTTPError for 4xx and 5xx
RaisesForStatus(status) == status >= 400 /\ status < 600

\* the exponent is the one-based number of the attempt that failed
BackoffWaitOneBased(att, jitter) == 10 * Pow2(att + 1) + jitter

\* wait_time = (2 ** attempt) + random.uniform(0, 1), in tenths of a second
BackoffWait(att, jitter) == 10 * Pow2(att) + jitter

(***************************************************************************)
(* parse_xml_request.  A text is a sequence of characters; the text of an  *)
(* element without text (<value/>) is None.                                *)
(***************************************************************************)
Chars == {" ", "x"}
Names == {"dataset_code", "B_1"}
Texts == UNION {[1..n -> Chars] : n \in 0..MaxTextLen}
NoneText == <<NoneValue>>
\* elem.text of a <value> element
ElemTexts == Texts \cup {NoneText}
\* a <parameter> element: the text of its <name> and of its <value>s
Parameters ==
    [name : Names, values : UNION {[1..n -> ElemTexts] : n \in 0..MaxValues}]
NoParam == [name |-> "<none>", values |-> <<>>]

RECURSIVE LStrip(_)
LStrip(t) ==
    IF t = <<>> THEN t
    ELSE IF Head(t) = " " THEN LStrip(Tail(t)) ELSE t

RECURSIVE RStrip(_)
RStrip(t) ==
    IF t = <<>> THEN t
    ELSE IF t[Len(t)] = " " THEN RStrip(SubSeq(t, 1, Len(t) - 1)) ELSE t

\* str.strip()
Strip(t) == RStrip(LStrip(t))

\* values of the params dict: a string, a list of strings, or None
StrValue(t) == [kind |-> "str", v |-> <<t>>]
ListValue(l) == [kind |-> "list", v |-> l]
NoneEntry == [kind |-> "none", v |-> <<>>]

\* params[name] = value
SetParam(ps, name, value) ==
    [n \in DOMAIN ps \cup {name} |-> IF n = name THEN value ELSE ps[n]]

\* values.insert(0, value): the list is built back to front
InsertValueFirst(values, value) == <<value>> \o values

\* values.append(value)
AppendValue(values, value) == Append(values, value)

\* the list built by the else branch: the stripped texts of the <value>
\* elements whose text is not None and not blank, in document order
RECURSIVE NonEmptyValues(_)
NonEmptyValues(elems) ==
    IF elems = <<>> THEN <<>>
    ELSE LET e == elems[Len(elems)]
             values == NonEmptyValues(SubSeq(elems, 1, Len(elems) - 1))
         IN  IF e # NoneText /\ Strip(e) # <<>>
             THEN AppendValue(values, Strip(e))
             ELSE values

\* the text is stored as it is in the document, without value.strip()
SingleValueUntrimmed(ps, name, value) ==
    IF value # NoneText
    THEN IF Strip(value) = <<>>
         THEN ps
         ELSE SetParam(ps, name, StrValue(value))
    ELSE SetParam(ps, name, NoneEntry)

\* the single-value branch for value = value_elements[0].text
SingleValue(ps, name, value) ==
    IF value # NoneText
    THEN IF Strip(value) = <<>>
         THEN ps
         ELSE SetParam(ps, name, StrValue(Strip(value)))
    ELSE SetParam(ps, name, NoneEntry)

\* one iteration of `for param in root.findall('parameter')`
ParseParameter(ps, p) ==
    IF Len(p.values) = 1
    THEN SingleValue(ps, p.name, p.values[1])
    ELSE LET values == NonEmptyValues(p.values)
         IN  IF values # <<>>
             THEN SetParam(ps, p.name, ListValue(values))
             ELSE ps

ParseStep(p) ==
    /\ parse_pc = "loop"
    /\ params' = ParseParameter(params, p)
    /\ param' = p
    /\ UNCHANGED <<parse_pc, submitVars, fs, batchVars, extVars>>

\* return params
ParseReturn ==
    /\ parse_pc = "loop"
    /\ parse_pc' = "returned"
    /\ UNCHANGED <<params, param, submitVars, fs, batchVars, extVars>>

(***************************************************************************)
(* The parts of the program at rest: a specification of one part starts    *)
(* the others in these states and never moves them.                        *)
(***************************************************************************)
\* no call of upload_to_google_sheets
SheetIdle ==
    /\ gc = FALSE
    /\ csv = [rows |-> 0, cols |-> 0]
    /\ sheet = "absent"
    /\ up_pc = "idle"
    /\ up_i = 0
    /\ updates = <<>>
    /\ up_result = FALSE

\* no call of export_multiple_datasets
ExportIdle ==
    /\ ex_pc = "idle"
    /\ ex_i = 0
    /\ csv_exists = <<>>
    /\ success_count = 0
    /\ load_log = <<>>
    /\ upload_calls = {}
    /\ ex_result = FALSE

\* no call of get_state_population_estimates or get_state_economic_data
CensusIdle ==
    /\ c_fn = "none"
    /\ years = <<>>
    /\ c_i = 0
    /\ all_data = <<>>
    /\ requested = <<>>
    /\ c_pc = "idle"
    /\ c_out = <<>>

ExtIdle == SheetIdle /\ ExportIdle /\ CensusIdle

\* no call into the CDC WONDER extractor
ExtractorIdle ==
    /\ max_retries = DefaultMaxRetries
    /\ attempt = 0
    /\ posts = 0
    /\ sleeps = 0
    /\ wait_time = 0
    /\ bad_requests = 0
    /\ last_status = TransportFailure
    /\ transients = 0
    /\ response = NoResponse
    /\ sub = "idle"
    /\ ret = NoneValue
    /\ err = "none"
    /\ diag = {}
    /\ request_params = <<>>
    /\ posted = {}
    /\ fs = InitFs
    /\ pc = "direct"
    /\ i = 0
    /\ exists = [k \in Datasets |-> FALSE]
    /\ results = <<>>
    /\ parse_calls = {}
    /\ submit_calls = {}
    /\ delays = 0
    /\ exit_code = -1
    /\ delay_since_post = 0
    /\ params = <<>>
    /\ param = NoParam
    /\ parse_pc = "idle"

\* a call parse_xml_request(xml_file_path) on a well-formed descriptor
InitParse ==
    /\ max_retries = DefaultMaxRetries
    /\ attempt = 0
    /\ posts = 0
    /\ sleeps = 0
    /\ wait_time = 0
    /\ bad_requests = 0
    /\ last_status = TransportFailure
    /\ transients = 0
    /\ response = NoResponse
    /\ sub = "idle"
    /\ ret = NoneValue
    /\ err = "none"
    /\ diag = {}
    /\ request_params = <<>>
    /\ posted = {}
    /\ fs = InitFs
    /\ pc = "direct"
    /\ i = 0
    /\ exists = [k \in Datasets |-> FALSE]
    /\ results = <<>>
    /\ parse_calls = {}
    /\ submit_calls = {}
    /\ delays = 0
    /\ exit_code = -1
    /\ delay_since_post = 0
    /\ params = <<>>
    /\ param = NoParam
    /\ parse_pc = "loop"
    /\ ExtIdle

NextParse ==
    \/ \E p \in Parameters : ParseStep(p)
    \/ ParseReturn

SpecParse == InitParse /\ [][NextParse]_vars

(***************************************************************************)
(* submit_request: the request parameters.                                 *)
(***************************************************************************)
\* the text '*None*'
NoneMarker == <<"*None*">>

\* the '*None*' sentinel is sent like any other value
DroppedIgnoresMarker(value) ==
    value = NoneEntry \/ value = StrValue(<<>>)

\* not (value is not None and value != '' and value != '*None*')
Dropped(value) ==
    value = NoneEntry \/ value = StrValue(<<>>) \/ value = StrValue(NoneMarker)

\* the essential parameters and the values they are filled with
DefaultFields ==
    [k \in {"dataset_code", "stage", "action-Send"} |->
        CASE k = "dataset_code" -> StrValue(<<"D176">>)
          [] k = "stage" -> StrValue(<<"request">>)
          [] k = "action-Send" -> StrValue(<<"Send">>)]

\* the essential parameters are assigned unconditionally
BuildRequestOverwritesEssentials(ps) ==
    LET kept == {k \in DOMAIN ps : ~Dropped(ps[k])}
    IN  [k \in kept \cup DOMAIN DefaultFields |->
            IF k \in DOMAIN DefaultFields THEN DefaultFields[k] ELSE ps[k]]

\* request_params: the parameters of params that are not dropped, and the
\* essential parameters that are then missing
BuildRequest(ps) ==
    LET kept == {k \in DOMAIN ps : ~Dropped(ps[k])}
    IN  [k \in kept \cup DOMAIN DefaultFields |->
            IF k \in kept THEN ps[k] ELSE DefaultFields[k]]

\* params mappings a caller passes to submit_request
\* the names: the essential parameters, the consent parameter of the remote
\* service and one query parameter
RequestKeys ==
    {"dataset_code", "stage", "action-Send", "accept_datause_restrictions",
     "B_1"}
\* the values: None, '', '*None*', a text and a list of texts
RequestValues ==
    {NoneEntry, StrValue(<<>>), StrValue(NoneMarker), StrValue(<<"x">>),
     ListValue(<< NoneMarker, <<"x">> >>)}
RequestMappings ==
    UNION {[K -> RequestValues] :
              K \in {K \in SUBSET RequestKeys :
                        Cardinality(K) <= MaxRequestKeys}}

(***************************************************************************)
(* submit_request: the retry loop.                                         *)
(***************************************************************************)
\* off by one: the final attempt is taken to have a retry left
RetriesLeftOffByOne(att, mr) == att < mr

\* `if attempt < max_retries - 1` of the 502, 504 and except branches
RetriesLeft(att, mr) == att < mr - 1

\* `continue` without the time.sleep(wait_time) before it
BackoffWithoutSleep(file) == [kind |-> "next", err |-> "none", file |-> file]

\* wait_time = ...; time.sleep(wait_time); continue
Backoff(file) == [kind |-> "backoff", err |-> "none", file |-> file]

\* except requests.exceptions.RequestException as e: back off and continue
\* while retries are left, re-raise e otherwise.  `file` is the diagnostic
\* file the try body wrote before raising.
ExceptHandler(att, mr, e, file) ==
    IF RetriesLeft(att, mr)
    THEN Backoff(file)
    ELSE [kind |-> "raise", err |-> e, file |-> file]

\* the 504 branch without its dump to timeout_response.html
AttemptOutcomeNoTimeoutDump(att, mr, status, wo) ==
    CASE status = TransportFailure ->
            ExceptHandler(att, mr, "RequestException", NoFile)
      [] status = 200 ->
            [kind |-> "return", err |-> "none", file |-> NoFile]
      [] status = 400 ->
            IF wo = "ok"
            THEN ExceptHandler(att, mr, "HTTPError", DebugFile)
            ELSE [kind |-> "raise", err |-> "OSError", file |-> DebugFile]
      [] status \in {502, 504} ->
            IF RetriesLeft(att, mr)
            THEN Backoff(NoFile)
            ELSE ExceptHandler(att, mr, "HTTPError", NoFile)
      [] OTHER ->
            IF RaisesForStatus(status)
            THEN ExceptHandler(att, mr, "HTTPError", NoFile)
            ELSE [kind |-> "next", err |-> "none", file |-> NoFile]

\* One iteration of the loop body for the outcome `status` of the POST;
\* `wo` is how writing a diagnostic file ends.  HTTPError, raised by
\* raise_for_status inside the try, is a RequestException and so reaches
\* the except clause of the same iteration; OSError does not.
AttemptOutcome(att, mr, status, wo) ==
    CASE status = TransportFailure ->
            ExceptHandler(att, mr, "RequestException", NoFile)
      [] status = 200 ->
            [kind |-> "return", err |-> "none", file |-> NoFile]
      [] status = 400 ->
            IF wo = "ok"
            THEN ExceptHandler(att, mr, "HTTPError", DebugFile)
            ELSE [kind |-> "raise", err |-> "OSError", file |-> DebugFile]
      [] status = 502 ->
            IF RetriesLeft(att, mr)
            THEN Backoff(NoFile)
            ELSE ExceptHandler(att, mr, "HTTPError", NoFile)
      [] status = 504 ->
            IF RetriesLeft(att, mr)
            THEN Backoff(NoFile)
            ELSE IF wo = "ok"
                 THEN ExceptHandler(att, mr, "HTTPError", TimeoutFile)
                 ELSE [kind |-> "raise", err |-> "OSError",
                       file |-> TimeoutFile]
      [] OTHER ->
            IF RaisesForStatus(status)
            THEN ExceptHandler(att, mr, "HTTPError", NoFile)
            ELSE [kind |-> "next", err |-> "none", file |-> NoFile]

\* return response.text.strip()
ReturnedTextStripped(r) == IF r.text = "b2 " THEN "b2" ELSE r.text

\* return response.text
ReturnedText(r) == r.text

\* One iteration of `for attempt in range(max_retries)`: the POST answered
\* by r, the handling of its status, and the backoff sleep if one follows.
SubmitAttempt(r, jitter, wo) ==
    /\ sub = "running"
    /\ attempt < max_retries
    /\ LET o == AttemptOutcome(attempt, max_retries, r.status, wo)
       IN  /\ posts' = posts + 1
           /\ bad_requests' = IF r.status = 400
                              THEN bad_requests + 1 ELSE bad_requests
           /\ last_status' = r.status
           /\ transients' = IF r.status \in TransientStatuses
                            THEN transients + 1 ELSE transients
           /\ response' = IF r.status = TransportFailure THEN response ELSE r
           /\ posted' = posted \cup {request_params}
           /\ delay_since_post' = 0
           /\ fs' = IF o.file = NoFile THEN fs
                    ELSE [fs EXCEPT ![o.file] = WriteFile(@, r.text, wo)]
           /\ diag' = IF o.file = NoFile \/ wo = "open_fails" THEN diag
                      ELSE diag \cup {o.file}
           /\ CASE o.kind = "return" ->
                     /\ sub' = "returned"
                     /\ ret' = ReturnedText(r)
                     /\ UNCHANGED <<attempt, sleeps, wait_time, err>>
                [] o.kind = "raise" ->
                     /\ sub' = "raised"
                     /\ err' = o.err
                     /\ UNCHANGED <<attempt, sleeps, wait_time, ret>>
                [] o.kind = "backoff" ->
                     /\ wait_time' = BackoffWait(attempt, jitter)
                     /\ sleeps' = sleeps + 1
                     /\ attempt' = attempt + 1
                     /\ UNCHANGED <<sub, ret, err>>
                [] o.kind = "next" ->
                     /\ attempt' = attempt + 1
                     /\ UNCHANGED <<sub, ret, err, sleeps, wait_time>>
    /\ UNCHANGED <<max_retries, request_params, orchVars, parseVars, extVars>>

\* range(max_retries) is exhausted without a return or a raise: the function
\* body ends and the call returns None.
SubmitLoopExit ==
    /\ sub = "running"
    /\ attempt >= max_retries
    /\ sub' = "returned"
    /\ ret' = NoneValue
    /\ UNCHANGED <<max_retries, attempt, posts, sleeps, wait_time, bad_requests,
                   last_status, transients, response, err, diag, fs,
                   request_params, posted, batchVars, parseVars, extVars>>

\* the random draw and the file system act only where the iteration
\* sleeps or writes a file
JitterInputs(r) ==
    IF AttemptOutcome(attempt, max_retries, r.status, "ok").kind = "backoff"
    THEN Jitters ELSE {0}
WriteInputs(r) ==
    IF AttemptOutcome(attempt, max_retries, r.status, "ok").file # NoFile
    THEN WriteOutcomes ELSE {"ok"}

SubmitStep ==
    \/ \E r \in Responses :
          \E jitter \in JitterInputs(r), wo \in WriteInputs(r) :
             SubmitAttempt(r, jitter, wo)
    \/ SubmitLoopExit

\* a direct call submit_request(params, max_retries)
InitSubmit ==
    /\ max_retries \in 0..MaxRetriesBound
    /\ attempt = 0
    /\ posts = 0
    /\ sleeps = 0
    /\ wait_time = 0
    /\ bad_requests = 0
    /\ last_status = TransportFailure
    /\ transients = 0
    /\ response = NoResponse
    /\ sub = "running"
    /\ ret = NoneValue
    /\ err = "none"
    /\ diag = {}
    /\ posted = {}
    /\ fs = InitFs
    /\ pc = "direct"
    /\ i = 0
    /\ exists = [k \in Datasets |-> FALSE]
    /\ results = <<>>
    /\ parse_calls = {}
    /\ submit_calls = {}
    /\ delays = 0
    /\ exit_code = -1
    /\ delay_since_post = 0
    /\ params = <<>>
    /\ param = NoParam
    /\ parse_pc = "idle"
    /\ request_params = BuildRequest(params)
    /\ ExtIdle

NextSubmit == SubmitStep

SpecSubmit == InitSubmit /\ [][NextSubmit]_vars

\* a direct call submit_request(params, max_retries) for each params mapping
InitRequest ==
    /\ max_retries \in 0..MaxRequestRetries
    /\ attempt = 0
    /\ posts = 0
    /\ sleeps = 0
    /\ wait_time = 0
    /\ bad_requests = 0
    /\ last_status = TransportFailure
    /\ transients = 0
    /\ response = NoResponse
    /\ sub = "running"
    /\ ret = NoneValue
    /\ err = "none"
    /\ diag = {}
    /\ posted = {}
    /\ fs = InitFs
    /\ pc = "direct"
    /\ i = 0
    /\ exists = [k \in Datasets |-> FALSE]
    /\ results = <<>>
    /\ parse_calls = {}
    /\ submit_calls = {}
    /\ delays = 0
    /\ exit_code = -1
    /\ delay_since_post = 0
    /\ params \in RequestMappings
    /\ param = NoParam
    /\ parse_pc = "idle"
    /\ request_params = BuildRequest(params)
    /\ ExtIdle

\* the request parameters do not depend on the responses: the endpoint
\* answers with one body and a success, a permanent or a transient status,
\* and the diagnostic files are written without error
RequestResponses == [status : {200, 400, 502}, text : {"b1"}]

NextRequest ==
    \/ \E r \in RequestResponses : SubmitAttempt(r, 0, "ok")
    \/ SubmitLoopExit

SpecRequest == InitRequest /\ [][NextRequest]_vars

TypeOKSubmit ==
    /\ max_retries \in 0..MaxRetriesBound
    /\ attempt \in 0..MaxRetriesBound
    /\ posts \in 0..MaxRetriesBound
    /\ sub \in {"running", "returned", "raised"}

(***************************************************************************)
(* extract_dataset, extract_all_datasets and main: the batch run.          *)
(***************************************************************************)
\* only successes are recorded
SetResultOnlySuccess(res, k, success) ==
    IF success THEN [d \in DOMAIN res \cup {k} |->
                        IF d = k THEN success ELSE res[d]]
    ELSE res

\* results[xml_file] = success
SetResult(res, k, success) ==
    [d \in DOMAIN res \cup {k} |-> IF d = k THEN success ELSE res[d]]

\* the locals of submit_request at the start of a call
EnterSubmit(mr) ==
    /\ max_retries' = mr
    /\ attempt' = 0
    /\ posts' = 0
    /\ sleeps' = 0
    /\ wait_time' = 0
    /\ bad_requests' = 0
    /\ last_status' = TransportFailure
    /\ transients' = 0
    /\ response' = NoResponse
    /\ sub' = "running"
    /\ ret' = NoneValue
    /\ err' = "none"
    /\ diag' = {}
    /\ request_params' = BuildRequest(params)
    /\ posted' = {}

\* the frame of submit_request is gone once extract_dataset has returned
LeaveSubmit ==
    /\ attempt' = 0
    /\ posts' = 0
    /\ sleeps' = 0
    /\ wait_time' = 0
    /\ bad_requests' = 0
    /\ last_status' = TransportFailure
    /\ transients' = 0
    /\ response' = NoResponse
    /\ sub' = "idle"
    /\ ret' = NoneValue
    /\ err' = "none"
    /\ diag' = {}
    /\ request_params' = <<>>
    /\ posted' = {}
    /\ UNCHANGED max_retries

\* Path(output_dir).mkdir(parents=True, exist_ok=True), outside any try:
\* an OSError leaves extract_all_datasets and main.
MakeOutputDir(ok) ==
    /\ pc = "start"
    /\ IF ok THEN pc' = "loop" /\ i' = 1
             ELSE pc' = "raised" /\ i' = i
    /\ UNCHANGED <<submitVars, fs, exists, results, parse_calls, submit_calls,
                   delays, exit_code, delay_since_post, parseVars, extVars>>

\* no os.path.exists test: extract_dataset is called for the missing
\* file, its parse raises, and the loop body records False and sleeps
SkipMissingParsesAnyway ==
    /\ pc = "loop"
    /\ i <= NumDatasets
    /\ ~exists[i]
    /\ parse_calls' = parse_calls \cup {i}
    /\ results' = SetResult(results, i, FALSE)
    /\ delays' = delays + 1
    /\ delay_since_post' = delay_since_post + PolitenessDelay
    /\ i' = i + 1
    /\ UNCHANGED <<submitVars, fs, pc, exists, submit_calls, exit_code,
                   parseVars, extVars>>

\* else branch of `if os.path.exists(xml_path)`: record False, no sleep
SkipMissing ==
    /\ pc = "loop"
    /\ i <= NumDatasets
    /\ ~exists[i]
    /\ results' = SetResult(results, i, FALSE)
    /\ i' = i + 1
    /\ UNCHANGED <<submitVars, fs, pc, exists, parse_calls, submit_calls,
                   delays, exit_code, delay_since_post, parseVars, extVars>>

\* `except requests.exceptions.RequestException`: only the errors of the
\* HTTP library are caught
CaughtOnlyRequestErrors(e) == e \in {"HTTPError", "RequestException"}

\* `except Exception as e` of extract_dataset: every exception the body
\* raises (ParseError, HTTPError, RequestException, OSError, TypeError) is
\* an Exception.
CaughtByExtractDataset(e) ==
    e \in {"ParseError", "HTTPError", "RequestException", "OSError",
           "TypeError"}

\* the sleep is skipped after a failed extraction
DelayOnlyAfterSuccess(success) == IF success THEN PolitenessDelay ELSE 0

\* time.sleep(2) after extract_dataset, whatever it returned
DelayAfter(success) == PolitenessDelay

\* the output file is opened for writing before the descriptor is parsed
BeginExtractOpensOutputFirst(parse_ok) ==
    /\ pc = "loop"
    /\ i <= NumDatasets
    /\ exists[i]
    /\ parse_calls' = parse_calls \cup {i}
    /\ IF parse_ok
       THEN /\ EnterSubmit(DefaultMaxRetries)
            /\ submit_calls' = submit_calls \cup {i}
            /\ pc' = "submit"
            /\ UNCHANGED <<i, results, delays, delay_since_post>>
       ELSE IF CaughtByExtractDataset("ParseError")
       THEN /\ results' = SetResult(results, i, FALSE)
            /\ delays' = delays + (IF DelayAfter(FALSE) > 0 THEN 1 ELSE 0)
            /\ delay_since_post' = delay_since_post + DelayAfter(FALSE)
            /\ i' = i + 1
            /\ UNCHANGED <<submitVars, submit_calls, pc>>
       ELSE /\ pc' = "raised"
            /\ UNCHANGED <<submitVars, submit_calls, i, results, delays,
                           delay_since_post>>
    /\ fs' = IF parse_ok THEN fs ELSE [fs EXCEPT ![OutputFile(i)] = ""]
    /\ UNCHANGED <<exists, exit_code, parseVars, extVars>>

\* extract_dataset up to the call of submit_request: parse_xml_request
\* either returns the parameters or raises; a caught raise makes
\* extract_dataset return False, and the loop body records it and sleeps.
BeginExtract(parse_ok) ==
    /\ pc = "loop"
    /\ i <= NumDatasets
    /\ exists[i]
    /\ parse_calls' = parse_calls \cup {i}
    /\ IF parse_ok
       THEN /\ EnterSubmit(DefaultMaxRetries)
            /\ submit_calls' = submit_calls \cup {i}
            /\ pc' = "submit"
            /\ UNCHANGED <<i, results, delays, delay_since_post>>
       ELSE IF CaughtByExtractDataset("ParseError")
       THEN /\ results' = SetResult(results, i, FALSE)
            /\ delays' = delays + (IF DelayAfter(FALSE) > 0 THEN 1 ELSE 0)
            /\ delay_since_post' = delay_since_post + DelayAfter(FALSE)
            /\ i' = i + 1
            /\ UNCHANGED <<submitVars, submit_calls, pc>>
       ELSE /\ pc' = "raised"
            /\ UNCHANGED <<submitVars, submit_calls, i, results, delays,
                           delay_since_post>>
    /\ UNCHANGED <<fs, exists, exit_code, parseVars, extVars>>

\* an error of f.write is swallowed
ExtractExceptionIgnoresWrite(submitted, e, data, wo) ==
    CASE submitted = "raised" -> e
      [] wo = "open_fails" -> "OSError"
      [] data = NoneValue -> "TypeError"
      [] OTHER -> "none"

\* the exception, if any, the body of extract_dataset ends with once
\* submit_request is over: the one submit_request raised, or the one of
\* `with open(output_file_path, 'w') as f: f.write(data)`
\* (f.write(None) raises TypeError).
ExtractException(submitted, e, data, wo) ==
    CASE submitted = "raised" -> e
      [] wo = "open_fails" -> "OSError"
      [] data = NoneValue -> "TypeError"
      [] wo = "write_fails" -> "OSError"
      [] OTHER -> "none"

\* extract_dataset after submit_request: the returned value is written to
\* the output file (open(..., 'w') truncates it first); then
\* results[xml_file] = success and time.sleep(2).
FinishExtract(wo) ==
    /\ pc = "submit"
    /\ sub \in {"returned", "raised"}
    /\ LET out == OutputFile(i)
           e == ExtractException(sub, err, ret, wo)
           \* f.write(None) is a write that fails once the file is open
           how == IF ret = NoneValue /\ wo = "ok" THEN "write_fails" ELSE wo
       IN  /\ fs' = IF sub = "returned"
                    THEN [fs EXCEPT ![out] = WriteFile(@, ret, how)]
                    ELSE fs
           /\ IF e = "none" \/ CaughtByExtractDataset(e)
              THEN /\ results' = SetResult(results, i, e = "none")
                   /\ delays' = delays + (IF DelayAfter(e = "none") > 0
                                          THEN 1 ELSE 0)
                   /\ delay_since_post' =
                         delay_since_post + DelayAfter(e = "none")
                   /\ i' = i + 1
                   /\ pc' = "loop"
              ELSE /\ pc' = "raised"
                   /\ UNCHANGED <<results, delays, delay_since_post, i>>
    /\ LeaveSubmit
    /\ UNCHANGED <<exists, parse_calls, submit_calls, exit_code, parseVars, extVars>>

\* any(results.values()) in place of all(results.values())
ExitCodeAny(res) == IF \E k \in DOMAIN res : res[k] THEN 0 ELSE 1

\* all_success = all(results.values()); return 0 if all_success else 1
ExitCode(res) == IF \A k \in DOMAIN res : res[k] THEN 0 ELSE 1

\* `return results`, and the rest of main
ReturnResults ==
    /\ pc = "loop"
    /\ i > NumDatasets
    /\ pc' = "done"
    /\ exit_code' = ExitCode(results)
    /\ UNCHANGED <<submitVars, fs, i, exists, results, parse_calls,
                   submit_calls, delays, delay_since_post, parseVars, extVars>>

\* main(): a run of the script
Init ==
    /\ max_retries = DefaultMaxRetries
    /\ attempt = 0
    /\ posts = 0
    /\ sleeps = 0
    /\ wait_time = 0
    /\ bad_requests = 0
    /\ last_status = TransportFailure
    /\ transients = 0
    /\ response = NoResponse
    /\ sub = "idle"
    /\ ret = NoneValue
    /\ err = "none"
    /\ diag = {}
    /\ request_params = <<>>
    /\ posted = {}
    /\ \E old \in {NoFile, "old"} :
          fs = [f \in DOMAIN InitFs |->
                   IF f \in DiagnosticFiles THEN NoFile ELSE old]
    /\ pc = "start"
    /\ i = 0
    /\ exists \in [Datasets -> BOOLEAN]
    /\ results = <<>>
    /\ parse_calls = {}
    /\ submit_calls = {}
    /\ delays = 0
    /\ exit_code = -1
    /\ delay_since_post = 0
    /\ params = <<>>
    /\ param = NoParam
    /\ parse_pc = "idle"
    /\ ExtIdle

Next ==
    \/ \E ok \in BOOLEAN : MakeOutputDir(ok)
    \/ SkipMissing
    \/ \E parse_ok \in BOOLEAN : BeginExtract(parse_ok)
    \/ SubmitStep
    \/ \E wo \in WriteOutcomes : FinishExtract(wo)
    \/ ReturnResults

Spec == Init /\ [][Next]_vars

TypeOK ==
    /\ pc \in {"start", "loop", "submit", "done", "raised"}
    /\ i \in 0..(NumDatasets + 1)
    /\ DOMAIN results \subseteq Datasets
    /\ \A k \in DOMAIN results : results[k] \in BOOLEAN
    /\ sub \in {"idle", "running", "returned", "raised"}

(***************************************************************************)
(* GoogleSheetsLoader.upload_to_google_sheets.  The CSV data is its number *)
(* of rows and the number of columns of its rows; a row is identified by   *)
(* its number.  A character is its code point.                             *)
(***************************************************************************)
batch_size == 1000
\* ord('A')
OrdA == 65

\* len(rows) of the CSV data: none, one, and around each multiple of the
\* batch size
RowCounts ==
    {0, 1} \cup {k * batch_size + d : k \in 1..MaxBatches, d \in {-1, 0, 1}}
ColCounts == 0..MaxCols
CsvData ==
    {c \in [rows : RowCounts, cols : ColCounts] : c.rows = 0 => c.cols = 0}

Min(a, b) == IF a <= b THEN a ELSE b

\* col_end = chr(ord('A') + num_cols - 1) if num_cols > 0 else 'A'
ColEnd(num_cols) == IF num_cols > 0 THEN <<OrdA + num_cols - 1>> ELSE <<OrdA>>

\* end_row = start_row + len(batch): one row too far
BatchRangeOverlaps(k, c) ==
    LET len == Min(batch_size, c.rows - k)
    IN  [start |-> k + 1, end |-> k + 1 + len,
         cols |-> c.cols, col_end |-> ColEnd(c.cols)]

\* batch = rows[i:i + batch_size] and the range it is written to
BatchRange(k, c) ==
    LET len == Min(batch_size, c.rows - k)
    IN  [start |-> k + 1, end |-> k + 1 + len - 1,
         cols |-> c.cols, col_end |-> ColEnd(c.cols)]

\* except Exception: log and return False
UploadFails ==
    /\ up_pc' = "returned"
    /\ up_result' = FALSE

\* `if not self.gc: return False`
UploadNotAuthenticated ==
    /\ up_pc = "start"
    /\ ~gc
    /\ UploadFails
    /\ UNCHANGED <<gc, csv, sheet, up_i, updates>>
    /\ UNCHANGED <<submitVars, fs, batchVars, parseVars, exportVars,
                   censusVars>>

\* spreadsheet = self.gc.open_by_key(self.sheet_id)
OpenSpreadsheet(ok) ==
    /\ up_pc = "start"
    /\ gc
    /\ IF ok THEN up_pc' = "opened" /\ UNCHANGED up_result ELSE UploadFails
    /\ UNCHANGED <<gc, csv, sheet, up_i, updates>>
    /\ UNCHANGED <<submitVars, fs, batchVars, parseVars, exportVars,
                   censusVars>>

\* spreadsheet.worksheet(name), and add_worksheet on WorksheetNotFound
WorksheetOutcomes == {"found", "created", "create_fails", "error"}
GetWorksheet(o) ==
    /\ up_pc = "opened"
    /\ o \in {"found"} => sheet # "absent"
    /\ o \in {"created", "create_fails"} => sheet = "absent"
    /\ IF o \in {"found", "created"}
       THEN up_pc' = "worksheet" /\ UNCHANGED up_result
       ELSE UploadFails
    /\ sheet' = IF o = "created" THEN "new" ELSE sheet
    /\ UNCHANGED <<gc, csv, up_i, updates>>
    /\ UNCHANGED <<submitVars, fs, batchVars, parseVars, exportVars,
                   censusVars>>

\* worksheet.clear()
ClearWorksheet(ok) ==
    /\ up_pc = "worksheet"
    /\ IF ok
       THEN /\ up_pc' = "cleared"
            /\ sheet' = IF sheet = "old" THEN "blank" ELSE sheet
            /\ UNCHANGED up_result
       ELSE UploadFails /\ UNCHANGED sheet
    /\ UNCHANGED <<gc, csv, up_i, updates>>
    /\ UNCHANGED <<submitVars, fs, batchVars, parseVars, exportVars,
                   censusVars>>

\* rows = list(csv_reader); worksheet.resize(num_rows, num_cols)
ResizeWorksheet(ok) ==
    /\ up_pc = "cleared"
    /\ IF ok
       THEN up_pc' = "batches" /\ up_i' = 0 /\ UNCHANGED up_result
       ELSE UploadFails /\ UNCHANGED up_i
    /\ UNCHANGED <<gc, csv, sheet, updates>>
    /\ UNCHANGED <<submitVars, fs, batchVars, parseVars, exportVars,
                   censusVars>>

\* one iteration of `for i in range(0, len(rows), batch_size)`
UpdateBatch(ok) ==
    /\ up_pc = "batches"
    /\ up_i < csv.rows
    /\ IF ok
       THEN /\ updates' = Append(updates, BatchRange(up_i, csv))
            /\ up_i' = up_i + batch_size
            /\ UNCHANGED <<up_pc, up_result>>
       ELSE UploadFails /\ UNCHANGED <<up_i, updates>>
    /\ UNCHANGED <<gc, csv, sheet>>
    /\ UNCHANGED <<submitVars, fs, batchVars, parseVars, exportVars,
                   censusVars>>

\* the loop is over: return True
UploadReturn ==
    /\ up_pc = "batches"
    /\ up_i >= csv.rows
    /\ up_pc' = "returned"
    /\ up_result' = TRUE
    /\ UNCHANGED <<gc, csv, sheet, up_i, updates>>
    /\ UNCHANGED <<submitVars, fs, batchVars, parseVars, exportVars,
                   censusVars>>

\* a call upload_to_google_sheets(csv_data, worksheet_name)
InitUpload ==
    /\ ExtractorIdle
    /\ ExportIdle
    /\ CensusIdle
    /\ gc \in BOOLEAN
    /\ csv \in CsvData
    /\ sheet \in {"absent", "old"}
    /\ up_pc = "start"
    /\ up_i = 0
    /\ updates = <<>>
    /\ up_result = FALSE

NextUpload ==
    \/ UploadNotAuthenticated
    \/ \E ok \in BOOLEAN : OpenSpreadsheet(ok)
    \/ \E o \in WorksheetOutcomes : GetWorksheet(o)
    \/ \E ok \in BOOLEAN : ClearWorksheet(ok)
    \/ \E ok \in BOOLEAN : ResizeWorksheet(ok)
    \/ \E ok \in BOOLEAN : UpdateBatch(ok)
    \/ UploadReturn

SpecUpload == InitUpload /\ [][NextUpload]_vars

(***************************************************************************)
(* export_multiple_datasets and GoogleSheetsLoader.load_data.              *)
(***************************************************************************)
exports ==
    << [worksheet |-> "CDC Mortality",
        csv_file |-> "../../final_datasets/fact_fentanyl_deaths_over_time.csv"],
       [worksheet |-> "Census Population",
        csv_file |-> "../../final_datasets/census_state_population.csv"],
       [worksheet |-> "Census Economic",
        csv_file |-> "../../final_datasets/census_state_economic.csv"] >>
total_exports == Len(exports)

\* how load_data(csv_file, worksheet) goes: export_data_to_csv finds the
\* file gone, fails to read it or reads an empty text, or the text is handed
\* to upload_to_google_sheets, which returns False or True
LoadOutcomes == {"file_gone", "read_fails", "empty", "upload_fails", "uploaded"}

\* load_data reaches self.upload_to_google_sheets(csv_data, worksheet_name)
CallsUpload(o) == o \in {"upload_fails", "uploaded"}

\* the value load_data returns
LoadData(o) == o = "uploaded"

\* return success_count > 0
AnyExported(count, total) == count > 0

\* return success_count == total_exports
AllExported(count, total) == count = total

\* `if not os.path.exists(export['csv_file']): continue`
ExportSkip ==
    /\ ex_pc = "loop"
    /\ ex_i <= total_exports
    /\ ~csv_exists[ex_i]
    /\ load_log' = Append(load_log, [export |-> ex_i, did |-> "skipped"])
    /\ ex_i' = ex_i + 1
    /\ UNCHANGED <<ex_pc, csv_exists, success_count, upload_calls, ex_result>>
    /\ UNCHANGED <<submitVars, fs, batchVars, parseVars, sheetVars,
                   censusVars>>

\* success = loader.load_data(export['csv_file'], export['worksheet'])
ExportLoad(o) ==
    /\ ex_pc = "loop"
    /\ ex_i <= total_exports
    /\ csv_exists[ex_i]
    /\ load_log' = Append(load_log, [export |-> ex_i, did |-> o])
    /\ upload_calls' = IF CallsUpload(o)
                       THEN upload_calls \cup {ex_i} ELSE upload_calls
    /\ success_count' = IF LoadData(o)
                        THEN success_count + 1 ELSE success_count
    /\ ex_i' = ex_i + 1
    /\ UNCHANGED <<ex_pc, csv_exists, ex_result>>
    /\ UNCHANGED <<submitVars, fs, batchVars, parseVars, sheetVars,
                   censusVars>>

\* the loop is over
ExportReturn ==
    /\ ex_pc = "loop"
    /\ ex_i > total_exports
    /\ ex_pc' = "returned"
    /\ ex_result' = AllExported(success_count, total_exports)
    /\ UNCHANGED <<ex_i, csv_exists, success_count, load_log, upload_calls>>
    /\ UNCHANGED <<submitVars, fs, batchVars, parseVars, sheetVars,
                   censusVars>>

\* a call export_multiple_datasets(loader)
InitExport ==
    /\ ExtractorIdle
    /\ SheetIdle
    /\ CensusIdle
    /\ ex_pc = "loop"
    /\ ex_i = 1
    /\ csv_exists \in [1..total_exports -> BOOLEAN]
    /\ success_count = 0
    /\ load_log = <<>>
    /\ upload_calls = {}
    /\ ex_result = FALSE

NextExport ==
    \/ ExportSkip
    \/ \E o \in LoadOutcomes : ExportLoad(o)
    \/ ExportReturn

SpecExport == InitExport /\ [][NextExport]_vars

(***************************************************************************)
(* CensusExtractor.get_state_population_estimates and                      *)
(* get_state_economic_data: the same loop over the years, with another     *)
(* list of variables and another cleaning function.                        *)
(***************************************************************************)
CensusFunctions == {"population", "economic"}
\* the years a caller asks for
Years == {2021, 2022, 2023}
YearLists == UNION {[1..n -> Years] : n \in 0..MaxYears}
\* the states of a response table
StateCodes == {1, 2}

\* how the try body of one year ends: session.get raises, raise_for_status
\* raises, response.json() or pd.DataFrame(...) raises, or the table of the
\* year is appended to all_data
YearOutcomes == {"transport_error", "http_error", "bad_body", "table"}

\* df = pd.DataFrame(data[1:], columns=data[0]); df['year'] = year
YearTable(fn, year) ==
    [k \in 1..Cardinality(StateCodes) |->
        [source |-> fn, year |-> year, state |-> k]]

\* raise when a year is missing from all_data
NoDataUnlessAllYears(data, ys) == Len(data) < Len(ys)

\* `if not all_data: raise Exception(...)`
NoData(data, ys) == data = <<>>

\* pd.concat(all_data, ignore_index=True): the rows of the tables, table
\* after table
RECURSIVE Concat(_)
Concat(tables) ==
    IF tables = <<>> THEN <<>>
    ELSE Head(tables) \o Concat(Tail(tables))

\* _clean_population_data / _clean_economic_data on a table of the API:
\* columns are converted and renamed, the rows keep their order
CleanData(fn, rows) ==
    [k \in 1..Len(rows) |->
        [year |-> rows[k].year, state_code |-> rows[k].state,
         kind |-> IF fn = "population"
                  THEN "ACS 5-Year Estimate" ELSE "economic"]]

\* one iteration of `for year in years`
CensusYear(o) ==
    /\ c_pc = "loop"
    /\ c_i <= Len(years)
    /\ requested' = Append(requested, [year |-> years[c_i], outcome |-> o])
    /\ all_data' = IF o = "table"
                   THEN Append(all_data, YearTable(c_fn, years[c_i]))
                   ELSE all_data
    /\ c_i' = c_i + 1
    /\ UNCHANGED <<c_fn, years, c_pc, c_out>>
    /\ UNCHANGED <<submitVars, fs, batchVars, parseVars, sheetVars,
                   exportVars>>

\* the loop is over: raise, or combine, clean and return
CensusFinish ==
    /\ c_pc = "loop"
    /\ c_i > Len(years)
    /\ IF NoData(all_data, years)
       THEN c_pc' = "raised" /\ UNCHANGED c_out
       ELSE c_pc' = "returned" /\ c_out' = CleanData(c_fn, Concat(all_data))
    /\ UNCHANGED <<c_fn, years, c_i, all_data, requested>>
    /\ UNCHANGED <<submitVars, fs, batchVars, parseVars, sheetVars,
                   exportVars>>

\* a call get_state_population_estimates(years) or
\* get_state_economic_data(years)
InitCensus ==
    /\ ExtractorIdle
    /\ SheetIdle
    /\ ExportIdle
    /\ c_fn \in CensusFunctions
    /\ years \in YearLists
    /\ c_i = 1
    /\ all_data = <<>>
    /\ requested = <<>>
    /\ c_pc = "loop"
    /\ c_out = <<>>

NextCensus ==
    \/ \E o \in YearOutcomes : CensusYear(o)
    \/ CensusFinish

SpecCensus == InitCensus /\ [][NextCensus]_vars

(***************************************************************************)
(* Properties of submit_request, checked under SpecSubmit.                 *)
(***************************************************************************)
Ended == sub \in {"returned", "raised"}

\* C1: when the endpoint answers every POST with HTTP 400, the call fails
\* after exactly one POST: no backoff wait and no second POST, for every
\* max_retries >= 1.
C1_BadRequestNotRetried ==
    (posts > 0 /\ bad_requests = posts)
    => (sub = "raised" /\ posts = 1 /\ sleeps = 0)

\* C2: a POST answered with a non-2xx status other than 400, 502 and 504
\* ends the call with an error: no backoff wait and no further POST follow.
OtherErrorStatuses ==
    {st \in Statuses \ {TransportFailure, 400, 502, 504} :
        ~(st >= 200 /\ st < 300)}

C2_OtherStatusNotRetried ==
    (posts > 0 /\ last_status \in OtherErrorStatuses) => sub = "raised"

\* C3: when the first k < max_retries POSTs of a call each get a transient
\* failure (502, 504, transport) and POST k+1 gets 200, the call returns the
\* body of that response after exactly k+1 POSTs and exactly k backoff waits.
C3_TransientThenSuccess ==
    (sub = "returned" /\ last_status = 200 /\ transients = posts - 1)
    => /\ transients < max_retries
       /\ sleeps = transients
       /\ response.status = 200
       /\ ret = response.text

\* two transient failures, then 200, with max_retries = 3: two waits
C3_Witness ==
    /\ sub = "returned"
    /\ max_retries = 3
    /\ last_status = 200
    /\ transients = 2
    /\ posts = 3
    /\ sleeps = 2
    /\ ret \in Bodies

\* C4: when every POST of a call gets 502, 504 or a transport failure, the
\* call makes exactly max_retries POSTs and then raises; no call makes more
\* than max_retries POSTs, and no backoff wait follows the final attempt.
C4_RetriesExhausted ==
    /\ posts <= max_retries
    /\ (posts > 0 /\ transients = posts)
       => IF sub = "running"
          THEN posts < max_retries /\ sleeps = posts
          ELSE sub = "raised" /\ posts = max_retries /\ sleeps = posts - 1

\* three transient failures with the default max_retries
C4_Witness ==
    /\ sub = "raised"
    /\ max_retries = DefaultMaxRetries
    /\ transients = DefaultMaxRetries
    /\ posts = DefaultMaxRetries
    /\ sleeps = DefaultMaxRetries - 1

C10_NoDumpOnSuccess ==
    (sub = "returned" /\ ret # NoneValue) => diag = {}

(***************************************************************************)
(* Properties of parse_xml_request, checked under SpecParse.               *)
(***************************************************************************)
\* C5: the mapping has no entry whose value is None or the empty string,
\* and no empty list.
C5_NoNullOrEmptyEntry ==
    \A n \in DOMAIN params :
        /\ params[n].kind # "none"
        /\ params[n].v # <<>>
        /\ \A k \in 1..Len(params[n].v) : params[n].v[k] # <<>>

C7_MissingSourceSkipped ==
    /\ \A k \in Datasets :
          ~exists[k] =>
             /\ k \notin parse_calls
             /\ k \notin submit_calls
             /\ ~(pc = "submit" /\ i = k)
             /\ k \in DOMAIN results => ~results[k]
    /\ pc = "done" =>
          /\ DOMAIN results = Datasets
          /\ \A k \in Datasets : exists[k] => k \in parse_calls

\* three pairs of which only the second is missing
C7_Witness ==
    /\ pc = "done"
    /\ exists = <<TRUE, FALSE, TRUE>>
    /\ DOMAIN results = {1, 2, 3}
    /\ ~results[2]
    /\ parse_calls = {1, 3}
    /\ submit_calls = {1, 3}

\* C8: the failure of one dataset never aborts or skips the datasets after
\* it: entries are recorded pair by pair in order, and the returned mapping
\* has exactly one boolean entry per configured pair.
C8_AllPairsProcessed ==
    /\ pc \in {"loop", "submit"} => DOMAIN results = 1..(i - 1)
    /\ pc = "raised" => i = 0
    /\ pc = "done" =>
          /\ DOMAIN results = Datasets
          /\ \A k \in Datasets : results[k] \in BOOLEAN
          /\ \A k \in Datasets : exists[k] => k \in parse_calls

\* the first dataset failed after its submission, the second at its parse,
\* and the third was still extracted
C8_Witness ==
    /\ pc = "done"
    /\ results = <<FALSE, FALSE, TRUE>>
    /\ submit_calls = {1, 3}
    /\ parse_calls = Datasets
    /\ fs[OutputFile(3)] \in Bodies


(***************************************************************************)
(* Properties of the request parameters, checked under SpecRequest.        *)
(***************************************************************************)
\* the values the request never carries: None, '' and '*None*'
EmptyValues == {NoneEntry, StrValue(<<>>), StrValue(<<"*None*">>)}

\* C11: every POST of submit_request carries the consent parameter
\* accept_datause_restrictions, whether or not the params mapping passed in
\* holds it.
C11_ConsentFlagSent ==
    \A f \in posted : "accept_datause_restrictions" \in DOMAIN f

\* C12: the fields of a POST never hold a parameter whose value is None, ''
\* or '*None*'; every other parameter of the input mapping is sent under its
\* name with its value unchanged; every attempt of a call sends the same
\* fields.
C12_EmptyDroppedOthersSent ==
    /\ \A f \in posted :
          /\ \A k \in DOMAIN f : f[k] \notin EmptyValues
          /\ \A k \in DOMAIN params :
                params[k] \notin EmptyValues
                => (k \in DOMAIN f /\ f[k] = params[k])
    /\ Cardinality(posted) <= 1

\* two POSTs of a call whose mapping holds a '*None*' value and a list value
C12_Witness ==
    /\ posts >= 2
    /\ posted # {}
    /\ \E k \in DOMAIN params : params[k] = StrValue(<<"*None*">>)
    /\ \E k \in DOMAIN params : params[k].kind = "list"

\* C13: every POST carries dataset_code, stage and action-Send: the value of
\* the input mapping where it holds a non-empty one, the default ('D176',
\* 'request', 'Send') where the parameter is missing or was dropped as empty.
C13_EssentialFields ==
    \A f \in posted :
       /\ {"dataset_code", "stage", "action-Send"} \subseteq DOMAIN f
       /\ \A k \in {"dataset_code", "stage", "action-Send"} :
             IF k \in DOMAIN params /\ params[k] \notin EmptyValues
             THEN f[k] = params[k]
             ELSE f[k] = StrValue(CASE k = "dataset_code" -> <<"D176">>
                                    [] k = "stage" -> <<"request">>
                                    [] k = "action-Send" -> <<"Send">>)

\* a POST of a call that supplied dataset_code, supplied an empty stage and
\* supplied no action-Send
C13_Witness ==
    /\ posts >= 1
    /\ posted # {}
    /\ DOMAIN params = {"dataset_code", "stage"}
    /\ params["dataset_code"] = StrValue(<<"x">>)
    /\ params["stage"] = StrValue(<<>>)
    /\ request_params["dataset_code"] = StrValue(<<"x">>)
    /\ request_params["stage"] = StrValue(<<"request">>)
    /\ request_params["action-Send"] = StrValue(<<"Send">>)

(***************************************************************************)
(* Further properties of submit_request, checked under SpecSubmit.         *)
(***************************************************************************)
\* C14: a POST answered with HTTP 200 ends the call: it returns the text of
\* that response unchanged, and no POST and no backoff wait follow.
C14_SuccessReturnsBody ==
    [][/\ (posts' > posts /\ last_status' = 200)
          => /\ sub' = "returned"
             /\ response'.status = 200
             /\ ret' = response'.text
             /\ sleeps' = sleeps
       /\ (posts > 0 /\ last_status = 200)
          => (posts' = posts /\ sleeps' = sleeps /\ ret' = ret)]_vars

\* a first POST answered 200 with a body that ends in a blank
C14_Witness ==
    /\ sub = "returned"
    /\ posts = 1
    /\ sleeps = 0
    /\ last_status = 200
    /\ ret = "b2 "


(***************************************************************************)
(* Further properties of parse_xml_request, checked under SpecParse.       *)
(***************************************************************************)
\* the texts of vs that are not None and not blank, in the order of vs, and
\* each of them stripped
TrimmedNonBlank(vs) ==
    LET kept == SelectSeq(vs, LAMBDA t : t # NoneText /\ Strip(t) # <<>>)
    IN  [j \in 1..Len(kept) |-> Strip(kept[j])]

C17_MultiValueList ==
    /\ (/\ param # NoParam
        /\ Len(param.values) > 1
        /\ TrimmedNonBlank(param.values) # <<>>)
       => /\ param.name \in DOMAIN params
          /\ params[param.name].kind = "list"
          /\ params[param.name].v = TrimmedNonBlank(param.values)
    /\ \A k \in DOMAIN params : params[k] # ListValue(<<>>)

\* two values, the first with a trailing blank, stored in document order
C17_Witness ==
    /\ param # NoParam
    /\ param.values = << <<"x", " ">>, <<"x", "x">> >>
    /\ param.name \in DOMAIN params
    /\ params[param.name] = ListValue(<< <<"x">>, <<"x", "x">> >>)


(***************************************************************************)
(* Further properties of the batch run, checked under Spec.                *)
(***************************************************************************)
\* C15: main returns 0 exactly when every entry of the result mapping is
\* True, and 1 when at least one dataset failed; a dataset whose descriptor
\* file is missing counts as failed.
C15_ExitStatus ==
    pc = "done"
    => /\ exit_code \in {0, 1}
       /\ exit_code = 0
          <=> (DOMAIN results = Datasets /\ \A k \in Datasets : results[k])
       /\ (\E k \in Datasets : ~results[k]) => exit_code = 1
       /\ (\E k \in Datasets : ~exists[k]) => exit_code = 1

\* a run in which only the second descriptor is missing returns 1
C15_Witness ==
    /\ pc = "done"
    /\ exists = <<TRUE, FALSE, TRUE>>
    /\ results = <<TRUE, FALSE, TRUE>>
    /\ exit_code = 1

\* C18: when parse_xml_request raises, no mapping reaches submit_request:
\* extract_dataset reports False for the dataset, no POST is made, the
\* output file is neither created nor opened, and the descriptor is parsed
\* once only.
C18_ParseFailureIsFinal ==
    [][/\ (pc = "loop" /\ parse_calls' # parse_calls /\ pc' # "submit")
          => /\ pc' = "loop"
             /\ i' = i + 1
             /\ i \in DOMAIN results' /\ ~results'[i]
             /\ fs' = fs
             /\ posts' = posts /\ posted' = posted
             /\ submit_calls' = submit_calls
             /\ params' = params /\ request_params' = request_params
       /\ parse_calls' # parse_calls
          => (i \notin parse_calls /\ parse_calls' = parse_calls \cup {i})
      ]_vars

\* the first descriptor failed to parse: False, nothing submitted, no file
C18_Witness ==
    /\ pc = "loop"
    /\ i = 2
    /\ exists[1]
    /\ parse_calls = {1}
    /\ submit_calls = {}
    /\ results = <<FALSE>>
    /\ fs[OutputFile(1)] = NoFile

\* C19: the first POST made for a dataset comes at least one politeness
\* delay of 2 seconds after the last POST made for an earlier dataset, and
\* exactly one after the last POST of the dataset just before it, whether
\* that extraction succeeded or failed.
C19_DelayBetweenDatasets ==
    [][(/\ pc = "submit"
        /\ posts = 0
        /\ posts' = 1
        /\ \E k \in submit_calls : k < i)
       => /\ delay_since_post >= 2
          /\ (i - 1) \in submit_calls => delay_since_post = 2
      ]_vars

\* the first POST of the second dataset, after a failed first extraction
C19_Witness ==
    /\ pc = "submit"
    /\ i = 2
    /\ posts = 1
    /\ submit_calls = {1, 2}
    /\ results = <<FALSE>>
    /\ delays = 1

C22_NeverReturnsNone ==
    sub = "returned"
    => /\ ret # NoneValue
       /\ last_status = 200
       /\ ret = response.text

\* C24: the backoff wait before retry n of a call is 2^(n-1) seconds plus a
\* jitter of [0, 1]: the exponent is the zero-based index of the attempt that
\* failed, whatever the failure was.  Times are in tenths of a second.
C24_BackoffDoubles ==
    [][sleeps' # sleeps
       => /\ sleeps' = sleeps + 1
          /\ posts' = posts + 1
          /\ attempt = posts
          /\ wait_time' >= 10 * (2 ^ (posts' - 1))
          /\ wait_time' <= 10 * (2 ^ (posts' - 1)) + 10
      ]_vars

\* the wait before the third retry, after a transport failure: 4 s + 1 s
C24_Witness ==
    /\ sub = "running"
    /\ posts = 3
    /\ sleeps = 3
    /\ last_status = TransportFailure
    /\ wait_time = 50

(***************************************************************************)
(* The output file and the order of the batch run, checked under Spec.     *)
(***************************************************************************)
\* C23: when extract_dataset returns False the output file is as it was
\* before the call: not created, not truncated, not partially written.
C23_FailureLeavesOutput ==
    [][(/\ pc \in {"loop", "submit"}
        /\ pc' = "loop"
        /\ i' = i + 1
        /\ ~results'[i])
       => fs'[OutputFile(i)] = fs[OutputFile(i)]
      ]_vars

\* C25: when writing the output file fails after submit_request returned a
\* body, the dataset's entry is False, the run goes on with the next dataset
\* without another POST or write for this one, and every dataset gets its
\* entry.
C25_WriteFailureIsFinal ==
    [][/\ (/\ pc = "submit"
           /\ pc' # "submit"
           /\ sub = "returned"
           /\ ret # NoneValue
           /\ fs'[dataset_mappings[i].out] # ret)
          => /\ pc' = "loop"
             /\ i' = i + 1
             /\ i \in DOMAIN results' /\ ~results'[i]
             /\ submit_calls' = submit_calls
       /\ \A k \in DOMAIN results :
             /\ k \in DOMAIN results' /\ results'[k] = results[k]
             /\ fs'[dataset_mappings[k].out] = fs[dataset_mappings[k].out]
             /\ submit_calls' \cap {k} = submit_calls \cap {k}
      ]_vars

\* the write of the first output file failed, the second dataset succeeded
C25_Witness ==
    /\ pc = "loop"
    /\ i = 3
    /\ submit_calls = {1, 2}
    /\ results = <<FALSE, TRUE>>
    /\ fs[OutputFile(1)] = ""
    /\ fs[OutputFile(2)] \in Bodies

\* C26: every parse, POST and write is made for the dataset the loop is at,
\* after the entries of all earlier datasets were recorded and before its
\* own: the POSTs of two datasets are never interleaved.
C26_Sequential ==
    [][(\/ posts' > posts
        \/ parse_calls' # parse_calls
        \/ submit_calls' # submit_calls
        \/ \E f \in DOMAIN fs \ DiagnosticFiles : fs'[f] # fs[f])
       => /\ i \in Datasets
          /\ DOMAIN results = 1..(i - 1)
          /\ parse_calls' \subseteq 1..i
          /\ submit_calls' \subseteq 1..i
          /\ \A f \in DOMAIN fs \ DiagnosticFiles :
                f # dataset_mappings[i].out => fs'[f] = fs[f]
      ]_vars

\* the second POST for the second dataset, after a backoff wait
C26_Witness ==
    /\ pc = "submit"
    /\ i = 2
    /\ DOMAIN results = {1}
    /\ posts = 2
    /\ sleeps = 1


(***************************************************************************)
(* Properties of upload_to_google_sheets, checked under SpecUpload.        *)
(***************************************************************************)
\* C21: after the call returned True for CSV data of N rows, the previous
\* contents of the worksheet were cleared and the rows were uploaded in
\* ceil(N / 1000) batches whose ranges are consecutive, hold at most 1000
\* rows each and partition 1..N.
C21_BatchesPartitionRows ==
    /\ (up_pc = "returned" /\ up_result)
       => /\ sheet \in {"new", "blank"}
          /\ Len(updates) = (csv.rows + 999) \div 1000
          /\ csv.rows > 0 => updates[Len(updates)].end = csv.rows
    /\ \A k \in 1..Len(updates) :
          /\ sheet \in {"new", "blank"}
          /\ updates[k].start = 1000 * (k - 1) + 1
          /\ updates[k].start <= updates[k].end
          /\ updates[k].end - updates[k].start + 1 <= 1000
          /\ updates[k].end <= csv.rows
          /\ k > 1 => updates[k].start = updates[k - 1].end + 1

\* 2001 rows uploaded over the contents of an earlier upload: 3 batches
C21_Witness ==
    /\ up_pc = "returned"
    /\ up_result
    /\ csv.rows = 2001
    /\ Len(updates) = 3
    /\ updates[3].start = 2001
    /\ updates[3].end = 2001
    /\ sheet = "blank"

\* C27: when the call returns False the worksheet still holds the contents
\* it had before the call: it is neither cleared nor partially filled.
C27_FailureLeavesWorksheet ==
    (up_pc = "returned" /\ ~up_result)
    => (sheet # "blank" /\ updates = <<>>)

\* the label of the n-th spreadsheet column: A..Z, AA, AB, ...
RECURSIVE ColumnLabel(_)
ColumnLabel(n) ==
    IF n <= 26 THEN <<64 + n>>
    ELSE ColumnLabel((n - 1) \div 26) \o <<65 + ((n - 1) % 26)>>

\* C28: the end column of the range of a batch whose first row has n >= 1
\* columns is the label of the n-th column.
C28_EndColumnIsLabel ==
    \A k \in 1..Len(updates) :
       updates[k].cols >= 1 => updates[k].col_end = ColumnLabel(updates[k].cols)


(***************************************************************************)
(* Properties of export_multiple_datasets, checked under SpecExport.       *)
(***************************************************************************)
\* C29: the three exports are processed in order whatever the earlier ones
\* did; the call returns True exactly when each of them was uploaded; an
\* export whose CSV file is missing gets no upload call and makes the
\* result False.
C29_AllExportsProcessed ==
    /\ \A k \in 1..Len(load_log) : load_log[k].export = k
    /\ \A k \in 1..3 : ~csv_exists[k] => k \notin upload_calls
    /\ ex_pc = "returned"
       => /\ Len(load_log) = 3
          /\ ex_result <=> \A k \in 1..3 : load_log[k].did = "uploaded"
          /\ (\E k \in 1..3 : ~csv_exists[k]) => ~ex_result

\* the first upload failed, the second CSV file is missing, the third
\* export was uploaded: False
C29_Witness ==
    /\ ex_pc = "returned"
    /\ ~ex_result
    /\ csv_exists = <<TRUE, FALSE, TRUE>>
    /\ Len(load_log) = 3
    /\ load_log[1].did = "upload_fails"
    /\ load_log[2].did = "skipped"
    /\ load_log[3].did = "uploaded"
    /\ upload_calls = {1, 3}


(***************************************************************************)
(* Properties of the census client, checked under SpecCensus.              *)
(***************************************************************************)
\* the years of the requests that gave a table, in request order
SucceededYears ==
    LET ok == SelectSeq(requested, LAMBDA r : r.outcome = "table")
    IN  [k \in 1..Len(ok) |-> ok[k].year]

====
